---- MODULE Spec2Model ----
(***************************************************************************)
(* Tic-tac-toe with a minimax / alpha-beta bot (src/src/App.tsx).          *)
(*                                                                         *)
(* The board model and the search engine are pure functions and are        *)
(* written as operators that compute what the TypeScript computes, loop    *)
(* by loop.  The React component is a state machine over its three         *)
(* useState cells, the pending setTimeout of the bot effect, and a flag    *)
(* that records an exception escaping a handler.                           *)
(*                                                                         *)
(* Representation choices:                                                 *)
(*   - a Board is a function 0..8 -> {"X", "O", null};                     *)
(*   - the JavaScript null of a Square or of humanPlayer is the string     *)
(*     "null"; the null of a move (number | null) is nullMove = -1;        *)
(*   - +Infinity / -Infinity are Infinity / -Infinity with Infinity = 2:   *)
(*     the search only compares them with values in {-1, 0, 1};            *)
(*   - a call that can throw returns a record with a field threw;          *)
(*   - arrays are JavaScript references, so every function that receives   *)
(*     a board also returns, in the field board, the contents that         *)
(*     array has when the call returns.                                    *)
(***************************************************************************)
EXTENDS Integers, Sequences, FiniteSets, TLC

VARIABLES
    board,        \* useState<Board>                         App.tsx:144
    humanPlayer,  \* useState<"X" | "O" | null>              App.tsx:146
    theme,        \* useState<"light" | "dark">              App.tsx:147
    timer,        \* the pending setTimeout of the bot effect App.tsx:171
    crashed,      \* "Invalid move" escaped a handler or a state updater;
                  \* the model stops there
    ret,          \* engine driver: the last call of an engine function
    engine,       \* game driver: the side(s) minimaxAB plays for
    start         \* game driver: the board the game started from

vars == <<board, humanPlayer, theme, timer, crashed, ret, engine, start>>

----------------------------------------------------------------------------
(* Types                                                                   *)

null == "null"
nullMove == 0 - 1
Infinity == 2

Players == {"X", "O"}
SquareValues == {"X", "O", null}
Index == 0 .. 8

Max(a, b) == IF a >= b THEN a ELSE b
Min(a, b) == IF a <= b THEN a ELSE b

----------------------------------------------------------------------------
(* Game logic functions                                                    *)

initialBoard == [i \in Index |-> null]

count(b, sq) == Cardinality({i \in Index : b[i] = sq})

\* getCurrentPlayer with the two branches exchanged.
getCurrentPlayer_swapped(b) ==
    LET xCount == count(b, "X")
        oCount == count(b, "O")
    IN  IF xCount = oCount THEN "O" ELSE "X"

getCurrentPlayer(b) ==
    LET xCount == count(b, "X")
        oCount == count(b, "O")
    IN  IF xCount = oCount THEN "X" ELSE "O"

\* availableMoves with the test of the filter inverted.
availableMoves_occupied(b) ==
    SelectSeq(<<0, 1, 2, 3, 4, 5, 6, 7, 8>>, LAMBDA idx : b[idx] # null)

availableMoves(b) ==
    SelectSeq(<<0, 1, 2, 3, 4, 5, 6, 7, 8>>, LAMBDA idx : b[idx] = null)

\* What a call that threw hands back instead of a board.
NoBoard == <<>>

\* applyMove without board.slice(): the move is written into the argument.
applyMove_inPlace(b, move, player) ==
    IF move \notin Index \/ b[move] # null
    THEN [threw |-> TRUE, board |-> b, newBoard |-> NoBoard]
    ELSE [threw |-> FALSE, board |-> [b EXCEPT ![move] = player],
          newBoard |-> [b EXCEPT ![move] = player]]

\* board: the contents of the argument array when the call returns;
\* newBoard: the array returned (board.slice() with one cell set).
\* board[move] !== null also holds of an index outside the array, where
\* board[move] is undefined.
applyMove(b, move, player) ==
    IF move \notin Index \/ b[move] # null
    THEN [threw |-> TRUE, board |-> b, newBoard |-> NoBoard]
    ELSE [threw |-> FALSE, board |-> b,
          newBoard |-> [b EXCEPT ![move] = player]]

winningLines ==
    << <<0, 1, 2>>, <<3, 4, 5>>, <<6, 7, 8>>,
       <<0, 3, 6>>, <<1, 4, 7>>, <<2, 5, 8>>,
       <<0, 4, 8>>, <<2, 4, 6>> >>

\* board[a] && board[a] === board[b] && board[a] === board[c]
lineWon(b, line) ==
    /\ b[line[1]] # null
    /\ b[line[1]] = b[line[2]]
    /\ b[line[1]] = b[line[3]]

RECURSIVE firstWinner(_, _)
\* The for loop of calculateWinner from the k-th winning line on.
firstWinner(b, k) ==
    IF k > Len(winningLines)
    THEN null
    ELSE IF lineWon(b, winningLines[k])
         THEN b[winningLines[k][1]]
         ELSE firstWinner(b, k + 1)

calculateWinner(b) == firstWinner(b, 1)

\* terminal without the test for a winner.
terminal_fullOnly(b) == \A i \in Index : b[i] # null

terminal(b) ==
    calculateWinner(b) # null \/ \A i \in Index : b[i] # null

\* utility with the two signs exchanged.
utility_swapped(b) ==
    LET win == calculateWinner(b)
    IN  IF win = "X" THEN 0 - 1
        ELSE IF win = "O" THEN 1
        ELSE 0

utility(b) ==
    LET win == calculateWinner(b)
    IN  IF win = "X" THEN 1
        ELSE IF win = "O" THEN 0 - 1
        ELSE 0

----------------------------------------------------------------------------
(* Minimax with alpha-beta pruning                                         *)

MoveResult(val, mv, b) ==
    [threw |-> FALSE, value |-> val, move |-> mv, board |-> b]

\* An exception of applyMove leaving a search function.
Thrown(b) ==
    [threw |-> TRUE, value |-> 0, move |-> nullMove, board |-> b]

\* The update of maxValueAB with >= for >.
improvesMax_nonStrict(minVal, v) == minVal >= v

\* if (minVal > v)
improvesMax(minVal, v) == minVal > v

\* The update of minValueAB with the > of maxValueAB.
improvesMin_copied(maxVal, v) == maxVal > v

\* The update of minValueAB with <= for <.
improvesMin_nonStrict(maxVal, v) == maxVal <= v

\* if (maxVal < v)
improvesMin(maxVal, v) == maxVal < v

\* The cutoff test one too early.
cutoff_early(alpha, beta) == alpha + 1 >= beta

\* The cutoff test with the comparison inverted.
cutoff_inverted(alpha, beta) == alpha <= beta

\* if (alpha >= beta) break
cutoff(alpha, beta) == alpha >= beta

RECURSIVE maxValueAB(_, _, _)
RECURSIVE minValueAB(_, _, _)
RECURSIVE maxLoop(_, _, _, _, _, _, _)
RECURSIVE minLoop(_, _, _, _, _, _, _)

\* The for loop of maxValueAB from the k-th available move on.
maxLoop(b, moves, k, v, bestMove, alpha, beta) ==
    IF k > Len(moves)
    THEN MoveResult(v, bestMove, b)
    ELSE LET move == moves[k]
             applied == applyMove(b, move, "X")
         IN  IF applied.threw
             THEN Thrown(applied.board)
             ELSE LET child == minValueAB(applied.newBoard, alpha, beta)
                  IN  IF child.threw
                      THEN Thrown(applied.board)
                      ELSE LET minVal == child.value
                               better == improvesMax(minVal, v)
                               v2 == IF better THEN minVal ELSE v
                               bestMove2 == IF better THEN move ELSE bestMove
                               alpha2 == Max(alpha, v2)
                           IN  IF cutoff(alpha2, beta)
                               THEN MoveResult(v2, bestMove2, applied.board)
                               ELSE maxLoop(applied.board, moves, k + 1,
                                            v2, bestMove2, alpha2, beta)

maxValueAB(b, alpha, beta) ==
    IF terminal(b)
    THEN MoveResult(utility(b), nullMove, b)
    ELSE maxLoop(b, availableMoves(b), 1, 0 - Infinity, nullMove,
                 alpha, beta)

\* The for loop of minValueAB from the k-th available move on.
minLoop(b, moves, k, v, bestMove, alpha, beta) ==
    IF k > Len(moves)
    THEN MoveResult(v, bestMove, b)
    ELSE LET move == moves[k]
             applied == applyMove(b, move, "O")
         IN  IF applied.threw
             THEN Thrown(applied.board)
             ELSE LET child == maxValueAB(applied.newBoard, alpha, beta)
                  IN  IF child.threw
                      THEN Thrown(applied.board)
                      ELSE LET maxVal == child.value
                               better == improvesMin(maxVal, v)
                               v2 == IF better THEN maxVal ELSE v
                               bestMove2 == IF better THEN move ELSE bestMove
                               beta2 == Min(beta, v2)
                           IN  IF cutoff(alpha, beta2)
                               THEN MoveResult(v2, bestMove2, applied.board)
                               ELSE minLoop(applied.board, moves, k + 1,
                                            v2, bestMove2, alpha, beta2)

minValueAB(b, alpha, beta) ==
    IF terminal(b)
    THEN MoveResult(utility(b), nullMove, b)
    ELSE minLoop(b, availableMoves(b), 1, Infinity, nullMove, alpha, beta)

\* The record of the evaluator that the player's role selects.
valueAB(b, currentPlayer, alpha, beta) ==
    IF currentPlayer = "X"
    THEN maxValueAB(b, alpha, beta)
    ELSE minValueAB(b, alpha, beta)

\* Only .move of the evaluator's record is returned.
moveOnly(r) == [threw |-> r.threw, move |-> r.move, board |-> r.board]

\* minimaxAB with the two evaluators swapped.
minimaxAB_swapped(b, currentPlayer) ==
    IF currentPlayer = "X"
    THEN moveOnly(minValueAB(b, 0 - Infinity, Infinity))
    ELSE moveOnly(maxValueAB(b, 0 - Infinity, Infinity))

minimaxAB(b, currentPlayer) ==
    IF currentPlayer = "X"
    THEN moveOnly(maxValueAB(b, 0 - Infinity, Infinity))
    ELSE moveOnly(minValueAB(b, 0 - Infinity, Infinity))

----------------------------------------------------------------------------
(* The React component                                                     *)

\* const botPlayer = humanPlayer ? (humanPlayer === "X" ? "O" : "X") : null
botPlayerOf(human) ==
    IF human # null THEN (IF human = "X" THEN "O" ELSE "X") ELSE null

NoTimer == [pending |-> FALSE, board |-> initialBoard, botPlayer |-> null]

\* The bot effect without the test for a finished game.
botEffect_noTerminal(b, human) ==
    IF human = null \/ botPlayerOf(human) = null
    THEN NoTimer
    ELSE IF getCurrentPlayer(b) # botPlayerOf(human)
         THEN NoTimer
         ELSE [pending |-> TRUE, board |-> b,
               botPlayer |-> botPlayerOf(human)]

\* The bot effect, run after a render with board b and side human: the
\* cleanup of the previous run has cleared the old timer, and the effect
\* schedules a new one, whose callback closes over b and botPlayer, unless
\* it returns early.
botEffect(b, human) ==
    IF human = null \/ botPlayerOf(human) = null
    THEN NoTimer
    ELSE IF terminal(b) \/ getCurrentPlayer(b) # botPlayerOf(human)
         THEN NoTimer
         ELSE [pending |-> TRUE, board |-> b,
               botPlayer |-> botPlayerOf(human)]

\* The early return of handleClick without the test for an occupied cell.
handleClickReturns_anyCell(b, human, i) ==
    \/ human = null
    \/ terminal(b)
    \/ getCurrentPlayer(b) # human

\* The early return of handleClick without the test of whose turn it is.
handleClickReturns_anyTurn(b, human, i) ==
    \/ human = null
    \/ terminal(b)
    \/ b[i] # null

\* The early return of handleClick without the test for a finished game.
handleClickReturns_afterEnd(b, human, i) ==
    \/ human = null
    \/ b[i] # null
    \/ getCurrentPlayer(b) # human

\* The early return of handleClick.
handleClickReturns(b, human, i) ==
    \/ human = null
    \/ terminal(b)
    \/ b[i] # null
    \/ getCurrentPlayer(b) # human

\* The state after a setBoard whose new board is the result of applied.
afterSetBoard(applied, prevBoard, human) ==
    IF applied.threw
    THEN [board |-> prevBoard, timer |-> NoTimer, crashed |-> TRUE]
    ELSE [board |-> applied.newBoard,
          timer |-> botEffect(applied.newBoard, human),
          crashed |-> FALSE]

\* The state after handleClick(i).
handleClick(b, human, tm, i) ==
    IF handleClickReturns(b, human, i)
    THEN [board |-> b, timer |-> tm, crashed |-> FALSE]
    ELSE afterSetBoard(applyMove(b, i, human), b, human)

\* The state after the timer callback, given what minimaxAB returned:
\* setBoard((prevBoard) => applyMove(prevBoard, bestMove, botPlayer)),
\* unless bestMove is null.
afterBestMove(best, tm, prevBoard, human) ==
    IF best.threw
    THEN [board |-> prevBoard, timer |-> NoTimer, crashed |-> TRUE]
    ELSE IF best.move # nullMove
         THEN afterSetBoard(applyMove(prevBoard, best.move, tm.botPlayer),
                            prevBoard, human)
         ELSE [board |-> prevBoard, timer |-> NoTimer, crashed |-> FALSE]

\* The state after the timer callback.
timerCallback(tm, prevBoard, human) ==
    afterBestMove(minimaxAB(tm.board, tm.botPlayer), tm, prevBoard, human)

NoCall == [fn |-> "none"]

Init ==
    /\ board = initialBoard
    /\ humanPlayer = null
    /\ theme = "light"
    /\ timer = NoTimer
    /\ crashed = FALSE
    /\ ret = NoCall
    /\ engine = null
    /\ start = initialBoard

\* "Play as X" / "Play as O", rendered while no side is chosen.
ChooseSide(p) ==
    /\ ~crashed
    /\ ret.fn = "none"
    /\ humanPlayer = null
    /\ humanPlayer' = p
    /\ timer' = botEffect(board, p)
    /\ UNCHANGED <<board, theme, crashed, ret, engine, start>>

\* A click on square i, rendered once a side is chosen.
HandleClick(i) ==
    /\ ~crashed
    /\ ret.fn = "none"
    /\ humanPlayer # null
    /\ \E after \in {handleClick(board, humanPlayer, timer, i)} :
           /\ board' = after.board
           /\ timer' = after.timer
           /\ crashed' = after.crashed
    /\ UNCHANGED <<humanPlayer, theme, ret, engine, start>>

\* The 500 ms timer of the bot effect fires.
TimerFires ==
    /\ ~crashed
    /\ ret.fn = "none"
    /\ timer.pending
    /\ \E after \in {timerCallback(timer, board, humanPlayer)} :
           /\ board' = after.board
           /\ timer' = after.timer
           /\ crashed' = after.crashed
    /\ UNCHANGED <<humanPlayer, theme, ret, engine, start>>

\* The theme button, always rendered; theme is no dependency of the bot
\* effect, so a pending timer stays.
ToggleTheme ==
    /\ ~crashed
    /\ ret.fn = "none"
    /\ theme' = IF theme = "light" THEN "dark" ELSE "light"
    /\ UNCHANGED <<board, humanPlayer, timer, crashed, ret, engine, start>>

\* "Restart Game", rendered once a side is chosen.
RestartGame ==
    /\ ~crashed
    /\ ret.fn = "none"
    /\ humanPlayer # null
    /\ board' = initialBoard
    /\ humanPlayer' = null
    /\ timer' = botEffect(initialBoard, null)
    /\ UNCHANGED <<theme, crashed, ret, engine, start>>

Next ==
    \/ \E p \in Players : ChooseSide(p)
    \/ \E i \in Index : HandleClick(i)
    \/ TimerFires
    \/ ToggleTheme
    \/ RestartGame

Spec == Init /\ [][Next]_vars

----------------------------------------------------------------------------
(* Engine driver: the boards of alternating play, and calls on them        *)
(*                                                                         *)
(* The drivers of this section and of the next two are callers of the      *)
(* functions above, not code of the repository: they supply the inputs.    *)

\* Either player makes any legal move, before a game is begun.
Play(i) ==
    /\ ret.fn = "none"
    /\ engine = null
    /\ ~terminal(board)
    /\ board[i] = null
    /\ board' = applyMove(board, i, getCurrentPlayer(board)).newBoard
    /\ UNCHANGED <<humanPlayer, theme, timer, crashed, ret, engine, start>>

\* The record of a call: its arguments, with the contents of the board
\* argument when the call was made, and what it returned.
Call(name, b, p, mv, r) ==
    [fn |-> name, arg |-> b, player |-> p, move |-> mv, result |-> r]

\* minimaxAB(board, p) for the player to move (for either player on a
\* terminal board).  The caller's array holds r.board afterwards.
CallMinimaxAB(p) ==
    /\ ret.fn = "none"
    /\ engine = null
    /\ terminal(board) \/ p = getCurrentPlayer(board)
    /\ \E r \in {minimaxAB(board, p)} :
           /\ ret' = Call("minimaxAB", board, p, nullMove, r)
           /\ board' = r.board
    /\ UNCHANGED <<humanPlayer, theme, timer, crashed, engine, start>>

\* maxValueAB / minValueAB (board, -Infinity, Infinity) for the player to
\* move.
CallValueAB(p) ==
    /\ ret.fn = "none"
    /\ engine = null
    /\ terminal(board) \/ p = getCurrentPlayer(board)
    /\ \E r \in {valueAB(board, p, 0 - Infinity, Infinity)} :
           /\ ret' = Call("valueAB", board, p, nullMove, r)
           /\ board' = r.board
    /\ UNCHANGED <<humanPlayer, theme, timer, crashed, engine, start>>

\* applyMove(board, i, p) for any cell, empty or not.
CallApplyMove(i, p) ==
    /\ ret.fn = "none"
    /\ engine = null
    /\ \E r \in {applyMove(board, i, p)} :
           /\ ret' = Call("applyMove", board, p, i, r)
           /\ board' = r.board
    /\ UNCHANGED <<humanPlayer, theme, timer, crashed, engine, start>>

\* The caller drops the result.
Return ==
    /\ ret.fn # "none"
    /\ ret' = NoCall
    /\ UNCHANGED <<board, humanPlayer, theme, timer, crashed, engine, start>>

NextEngine ==
    \/ \E i \in Index : Play(i)
    \/ \E p \in Players : CallMinimaxAB(p)
    \/ \E p \in Players : CallValueAB(p)
    \/ \E i \in Index, p \in Players : CallApplyMove(i, p)
    \/ Return

SpecEngine == Init /\ [][NextEngine]_vars

----------------------------------------------------------------------------
(* The application, with applyMove also called from outside                *)

NextProbed ==
    \/ Next
    \/ \E i \in Index, p \in Players : CallApplyMove(i, p)
    \/ Return

SpecProbed == Init /\ [][NextProbed]_vars

----------------------------------------------------------------------------
(* Game driver: minimaxAB plays one side, or both, from any board          *)

Sides == {"X", "O", "XO"}

plays(side, p) == side = p \/ side = "XO"

\* A game begins on the board reached so far.
Begin(side) ==
    /\ ret.fn = "none"
    /\ engine = null
    /\ engine' = side
    /\ start' = board
    /\ UNCHANGED <<board, humanPlayer, theme, timer, crashed, ret>>

\* The board after the engine's side p has played what minimaxAB returned.
engineMove(b, p) ==
    afterBestMove(minimaxAB(b, p), [botPlayer |-> p], b, null).board

\* The engine moves when it is its side's turn and the game is not over.
EngineMove ==
    /\ engine # null
    /\ ~terminal(board)
    /\ plays(engine, getCurrentPlayer(board))
    /\ board' = engineMove(board, getCurrentPlayer(board))
    /\ UNCHANGED <<humanPlayer, theme, timer, crashed, ret, engine, start>>

\* The opponent plays any legal move.
OpponentMove(i) ==
    /\ engine # null
    /\ ~terminal(board)
    /\ ~plays(engine, getCurrentPlayer(board))
    /\ board[i] = null
    /\ board' = applyMove(board, i, getCurrentPlayer(board)).newBoard
    /\ UNCHANGED <<humanPlayer, theme, timer, crashed, ret, engine, start>>

NextGame ==
    \/ \E i \in Index : Play(i)
    \/ \E side \in Sides : Begin(side)
    \/ EngineMove
    \/ \E i \in Index : OpponentMove(i)

SpecGame == Init /\ [][NextGame]_vars

----------------------------------------------------------------------------
(* Reference: exact minimax without pruning                                *)

\* The 9-cell boards consistent with alternating play, X first.
LegalBoards ==
    {b \in [Index -> SquareValues] : count(b, "X") - count(b, "O") \in {0, 1}}

Layer(n) == {b \in LegalBoards : count(b, "X") + count(b, "O") = n}

\* Player p holds all three cells of some line of b.
Won(b, p) ==
    \E k \in 1 .. 8 : \A j \in 1 .. 3 : b[winningLines[k][j]] = p

\* The game is over on b: a line is complete or no cell is empty.
GameOver(b) ==
    Won(b, "X") \/ Won(b, "O") \/ \A i \in Index : b[i] # null

\* Value and move of full-depth minimax at b, given the table sub of its
\* successors: the optimum over all legal moves, and the first move in
\* ascending order that attains it (a scan with strict-improvement updates).
PlainNode(b, sub) ==
    IF GameOver(b)
    THEN [value |-> IF Won(b, "X") THEN 1 ELSE IF Won(b, "O") THEN 0 - 1 ELSE 0,
          move |-> nullMove]
    ELSE LET p == IF count(b, "X") = count(b, "O") THEN "X" ELSE "O"
             moves == {i \in Index : b[i] = null}
             val(i) == sub[[b EXCEPT ![i] = p]].value
             best == IF p = "X"
                     THEN CHOOSE v \in {val(i) : i \in moves} :
                              \A i \in moves : val(i) <= v
                     ELSE CHOOSE v \in {val(i) : i \in moves} :
                              \A i \in moves : val(i) >= v
             optimal == {i \in moves : val(i) = best}
         IN  [value |-> best,
              move |-> CHOOSE i \in optimal : \A j \in optimal : i <= j]

RECURSIVE PlainTable(_)
PlainTable(n) ==
    IF n = 9
    THEN [b \in Layer(9) |-> PlainNode(b, <<>>)]
    ELSE LET sub == PlainTable(n + 1)
         IN  [b \in Layer(n) |-> PlainNode(b, sub)] @@ sub

Plain == PlainTable(0)

----------------------------------------------------------------------------
(* Claims                                                                  *)

marks(b) == count(b, "X") + count(b, "O")

\* The side lost on the terminal board b.
Lost(side, b) ==
    \/ side = "X" /\ utility(b) < 0
    \/ side = "O" /\ utility(b) > 0

\* The side has lost under perfect play from board b.
LostFrom(side, b) ==
    \/ side = "X" /\ Plain[b].value < 0
    \/ side = "O" /\ Plain[b].value > 0

\* C1 as stated: whatever legal board a game starts from, when minimaxAB
\* plays every move of one side the final board has utility >= 0 if that
\* side is X and utility <= 0 if it is O.
C1_NeverLosesFromAnyStart ==
    (engine \in Players /\ terminal(board)) => ~Lost(engine, board)

\* C1 amended: the same, for the legal starting boards that are not already
\* lost for the engine's side under perfect play (exact minimax value of
\* the starting board >= 0 for X, <= 0 for O).
C1_NeverLosesUnlessLostAtStart ==
    (engine \in Players /\ terminal(board) /\ ~LostFrom(engine, start))
        => ~Lost(engine, board)

\* A game the engine played in, from a board that was not lost, is over.
C1_Witness ==
    /\ engine \in Players
    /\ ~terminal(start)
    /\ ~LostFrom(engine, start)
    /\ terminal(board)
    /\ count(board, engine) > count(start, engine)

\* C2: in the running application the human never wins: whenever the
\* board shows a winner, the winner is the bot and not the human.
C2_HumanNeverWins ==
    calculateWinner(board) \in Players
        => /\ calculateWinner(board) # humanPlayer
           /\ calculateWinner(board) = botPlayerOf(humanPlayer)

\* The bot has won a game.
C2_Witness ==
    /\ humanPlayer \in Players
    /\ calculateWinner(board) = botPlayerOf(humanPlayer)

\* C3: on a board where play continues, maxValueAB / minValueAB called with
\* (-Infinity, +Infinity) return the value and the move of unpruned
\* full-depth minimax.
C3_PruningKeepsRootResult ==
    (ret.fn = "valueAB" /\ ~GameOver(ret.arg))
        => /\ ~ret.result.threw
           /\ ret.result.value = Plain[ret.arg].value
           /\ ret.result.move = Plain[ret.arg].move

\* A search from a nearly empty board, where whole subtrees are cut off.
C3_Witness ==
    /\ ret.fn = "valueAB"
    /\ marks(ret.arg) = 1
    /\ ret.result.move \in Index

\* C4: on a board where play continues, minimaxAB for the player to move
\* returns the index of an empty cell, never null and never an occupied cell.
C4_MoveIsAvailable ==
    (ret.fn = "minimaxAB" /\ ~GameOver(ret.arg))
        => /\ ~ret.result.threw
           /\ ret.result.move \in Index
           /\ ret.arg[ret.result.move] = null

\* minimaxAB has returned on a board with one empty cell left.
C4_Witness ==
    /\ ret.fn = "minimaxAB"
    /\ ~GameOver(ret.arg)
    /\ marks(ret.arg) = 8

\* The legal moves of player p on b that attain the exact minimax value of b.
OptimalMoves(b, p) ==
    {i \in Index : b[i] = null
                   /\ Plain[[b EXCEPT ![i] = p]].value = Plain[b].value}

\* C5: the move minimaxAB returns is the smallest index among the legal
\* moves whose exact minimax value is the optimal value for the player.
C5_LowestIndexOptimal ==
    (ret.fn = "minimaxAB" /\ ~GameOver(ret.arg))
        => /\ ret.result.move \in OptimalMoves(ret.arg, ret.player)
           /\ \A j \in OptimalMoves(ret.arg, ret.player) :
                  ret.result.move <= j

\* minimaxAB has chosen among several optimal moves, with a legal move of
\* lower index that is not optimal.
C5_Witness ==
    /\ ret.fn = "minimaxAB"
    /\ ~GameOver(ret.arg)
    /\ Cardinality(OptimalMoves(ret.arg, ret.player)) > 1
    /\ \E i \in Index : /\ ret.arg[i] = null
                        /\ i < ret.result.move

C7_InvalidMoveOnlyOnOccupied ==
    /\ ~crashed
    /\ ret.fn = "applyMove"
           => /\ ret.result.threw <=> ret.arg[ret.move] # null
              /\ ret.result.threw => ret.result.newBoard = NoBoard
              /\ ~ret.result.threw
                     => ret.result.newBoard \in [Index -> SquareValues]

\* applyMove has thrown on an occupied cell, in a game in progress.
C7_Witness ==
    /\ ret.fn = "applyMove"
    /\ ret.result.threw
    /\ humanPlayer \in Players
    /\ marks(board) >= 2

\* C8: applyMove on an empty cell returns a board with the player's mark at
\* the move and the input's cells elsewhere, and leaves its input as it
\* was; the board passed to maxValueAB / minValueAB is as it was when the
\* search returns.
C8_ApplyMoveLeavesInput ==
    /\ (ret.fn = "applyMove" /\ ~ret.result.threw)
           => /\ ret.result.newBoard[ret.move] = ret.player
              /\ \A j \in Index \ {ret.move} :
                     ret.result.newBoard[j] = ret.arg[j]
              /\ ret.result.board = ret.arg
              /\ board = ret.arg
    /\ ret.fn = "valueAB"
           => /\ ret.result.board = ret.arg
              /\ board = ret.arg

\* A search that explored branches has returned.
C8_Witness ==
    /\ ret.fn = "valueAB"
    /\ marks(ret.arg) = 2
    /\ ret.result.move \in Index

\* Both sides are played by minimaxAB, from the empty board.
SelfPlay == engine = "XO" /\ start = initialBoard

\* C9: self-play from the empty board is asked for a move only while play
\* continues and gets a move that fills one more cell every time, so it ends
\* within 9 moves; and the board it ends on has no winner (utility 0).
C9_SelfPlayDraws ==
    /\ [](SelfPlay /\ terminal(board)
              => utility(board) = 0 /\ ~Won(board, "X") /\ ~Won(board, "O"))
    /\ [][SelfPlay => (~GameOver(board) /\ marks(board') = marks(board) + 1)]_vars

\* Self-play has filled the board.
C9_Witness ==
    /\ SelfPlay
    /\ marks(board) = 9
    /\ utility(board) = 0

\* X at 0 and 8, O at 4.
B10 ==
    [i \in Index |-> IF i \in {0, 8} THEN "X" ELSE IF i = 4 THEN "O" ELSE null]

\* C10: on B10 with O to move, minimaxAB returns one of 1, 2, 3, 5, 6, 7,
\* and the board after O plays it has exact minimax value 0.
C10_BlockKeepsDraw ==
    (ret.fn = "minimaxAB" /\ ret.arg = B10)
        => /\ ~ret.result.threw
           /\ ret.result.move \in {1, 2, 3, 5, 6, 7}
           /\ Plain[[B10 EXCEPT ![ret.result.move] = "O"]].value = 0

\* minimaxAB has returned on B10.
C10_Witness ==
    /\ ret.fn = "minimaxAB"
    /\ ret.arg = B10
    /\ ret.player = "O"
    /\ ret.result.move \in Index

\* X at 0 and 1, O at 3 and 4.
B11 ==
    [i \in Index |-> IF i \in {0, 1} THEN "X"
                     ELSE IF i \in {3, 4} THEN "O" ELSE null]

\* C11: on B11 with X to move, minimaxAB returns 2, the move that completes
\* the top row.
C11_TakesTheWin ==
    (ret.fn = "minimaxAB" /\ ret.arg = B11)
        => /\ ~ret.result.threw
           /\ ret.result.move = 2

\* minimaxAB has returned on B11, and its move wins at once.
C11_Witness ==
    /\ ret.fn = "minimaxAB"
    /\ ret.arg = B11
    /\ ret.player = "X"
    /\ ret.result.move \in Index
    /\ Won([B11 EXCEPT ![ret.result.move] = "X"], "X")

----------------------------------------------------------------------------
(* Board driver: every board consistent with alternating play              *)

InitBoards ==
    /\ board \in LegalBoards
    /\ humanPlayer = null
    /\ theme = "light"
    /\ timer = NoTimer
    /\ crashed = FALSE
    /\ ret = NoCall
    /\ engine = null
    /\ start = initialBoard

\* calculateWinner(board), terminal(board) and utility(board).
CallTerminal ==
    /\ ret.fn = "none"
    /\ ret' = Call("terminal", board, null, nullMove,
                   [winner |-> calculateWinner(board),
                    terminal |-> terminal(board),
                    utility |-> utility(board)])
    /\ UNCHANGED <<board, humanPlayer, theme, timer, crashed, engine, start>>

NextBoards ==
    \/ CallTerminal
    \/ Return

SpecBoards == InitBoards /\ [][NextBoards]_vars

\* No cell of b is empty.
Full(b) == \A i \in Index : b[i] # null

\* C12: on every board consistent with alternating play, terminal is true
\* exactly when calculateWinner is non-null or no cell is empty; and a full
\* board with no completed line is terminal, with no winner and utility 0.
C12_TerminalIffWinnerOrFull ==
    ret.fn = "terminal"
        => /\ ret.result.terminal
                  <=> (ret.result.winner # null \/ Full(ret.arg))
           /\ ret.result.winner # null
                  <=> (Won(ret.arg, "X") \/ Won(ret.arg, "O"))
           /\ (Full(ret.arg) /\ ~Won(ret.arg, "X") /\ ~Won(ret.arg, "O"))
                  => /\ ret.result.terminal
                     /\ ret.result.winner = null
                     /\ ret.result.utility = 0

\* terminal has returned on a full board with no completed line.
C12_Witness ==
    /\ ret.fn = "terminal"
    /\ Full(ret.arg)
    /\ ~Won(ret.arg, "X")
    /\ ~Won(ret.arg, "O")
    /\ ret.result.terminal

\* C13: getCurrentPlayer returns the player who has moved fewer times, and
\* X when both have moved equally often; and in the application every move
\* applied to the board changes its value to the other player, from X on
\* the empty board.
C13_TurnsAlternate ==
    /\ [](/\ count(board, "X") = count(board, "O")
                 => getCurrentPlayer(board) = "X"
          /\ count(board, "X") > count(board, "O")
                 => getCurrentPlayer(board) = "O"
          /\ board = initialBoard => getCurrentPlayer(board) = "X")
    /\ [][marks(board') = marks(board) + 1
              => getCurrentPlayer(board') # getCurrentPlayer(board)]_vars

\* Several moves have been applied in a game of the application, and it
\* is X's turn again.
C13_Witness ==
    /\ humanPlayer \in Players
    /\ marks(board) = 4
    /\ getCurrentPlayer(board) = "X"

\* C14: in every state of the application the number of X cells equals the
\* number of O cells or exceeds it by exactly 1.
C14_CountInvariant ==
    count(board, "X") - count(board, "O") \in {0, 1}

\* X has moved once more than O, after moves of both the human and the bot.
C14_Witness ==
    /\ humanPlayer \in Players
    /\ count(board, "X") = 3
    /\ count(board, "O") = 2

\* C15: a timer of the bot effect is pending only when a side is chosen,
\* the board is not terminal and it is the bot's turn; so the minimaxAB
\* call of its callback gets the rendered board and the bot's mark, and
\* returns the index of an empty cell, never null.
C15_BotCalledOnItsTurn ==
    timer.pending
        => /\ humanPlayer \in Players
           /\ timer.botPlayer = botPlayerOf(humanPlayer)
           /\ timer.botPlayer \in Players
           /\ timer.board = board
           /\ ~GameOver(timer.board)
           /\ getCurrentPlayer(timer.board) = timer.botPlayer
           /\ minimaxAB(timer.board, timer.botPlayer).move \in Index
           /\ board[minimaxAB(timer.board, timer.botPlayer).move] = null

\* A timer is pending in the middle of a game.
C15_Witness ==
    /\ timer.pending
    /\ marks(board) >= 3

\* The bot's mark has been added to b, and nothing else has changed.
BotMoved(b, c, bot) ==
    \E i \in Index : b[i] = null /\ c = [b EXCEPT ![i] = bot]

\* C16: a pending timer belongs to the rendered board and side; while it is
\* pending no click changes the board: the only steps that change the
\* board are the callback placing the bot's mark on that same board and
\* restartGame; and every step that changes the board or the side in
\* another way than the callback leaves a timer only if it is one newly
\* scheduled for the new board and side.
C16_NoOverlap ==
    /\ [](timer.pending
              => /\ timer.board = board
                 /\ timer.botPlayer = botPlayerOf(humanPlayer))
    /\ [][(timer.pending /\ board' # board)
              => \/ /\ BotMoved(timer.board, board', timer.botPlayer)
                    /\ humanPlayer' = humanPlayer
                 \/ /\ board' = initialBoard
                    /\ humanPlayer' = null
                    /\ ~timer'.pending]_vars

\* A timer is pending on a board on which the human has moved.
C16_Witness ==
    /\ timer.pending
    /\ humanPlayer \in Players
    /\ count(board, humanPlayer) >= 2

\* C18: once the board is terminal no timer is pending and no click
\* changes the board; the only step that changes it is restartGame, which
\* leaves nine empty cells and no chosen side, and the theme as it was.
C18_GameOverAbsorbing ==
    /\ [](GameOver(board) => ~timer.pending)
    /\ [][GameOver(board)
              => \/ board' = board /\ humanPlayer' = humanPlayer
                 \/ /\ board' = initialBoard
                    /\ humanPlayer' = null
                    /\ theme' = theme]_vars

\* The bot has won with cells still empty, and it is the human's turn by
\* count.
C18_Witness ==
    /\ humanPlayer \in Players
    /\ Won(board, botPlayerOf(humanPlayer))
    /\ marks(board) < 9
    /\ getCurrentPlayer(board) = humanPlayer

----------------------------------------------------------------------------
(* Window driver: the evaluators called with every window                  *)

\* The windows alpha < beta over -Infinity, -1, 0, 1, +Infinity.
Bounds == {0 - Infinity, 0 - 1, 0, 1, Infinity}

Windows == {w \in Bounds \X Bounds : w[1] < w[2]}

\* maxValueAB / minValueAB (board, alpha, beta) for the player to move.
CallWindowAB(p, alpha, beta) ==
    /\ ret.fn = "none"
    /\ engine = null
    /\ terminal(board) \/ p = getCurrentPlayer(board)
    /\ \E r \in {valueAB(board, p, alpha, beta)} :
           /\ ret' = [fn |-> "windowAB", arg |-> board, player |-> p,
                      alpha |-> alpha, beta |-> beta, result |-> r]
           /\ board' = r.board
    /\ UNCHANGED <<humanPlayer, theme, timer, crashed, engine, start>>

NextWindow ==
    \/ \E i \in Index : Play(i)
    \/ \E p \in Players, w \in Windows : CallWindowAB(p, w[1], w[2])
    \/ Return

SpecWindow == Init /\ [][NextWindow]_vars

\* C17: the value v an evaluator returns for a window alpha < beta and the
\* exact minimax value m of the board: v = m if alpha < v < beta, m <= v if
\* v <= alpha, m >= v if v >= beta; and v is -1, 0 or 1.
C17_WindowInvariant ==
    ret.fn = "windowAB"
        => /\ ~ret.result.threw
           /\ ret.result.value \in {0 - 1, 0, 1}
           /\ (ret.alpha < ret.result.value /\ ret.result.value < ret.beta)
                  => ret.result.value = Plain[ret.arg].value
           /\ ret.result.value <= ret.alpha
                  => Plain[ret.arg].value <= ret.result.value
           /\ ret.result.value >= ret.beta
                  => Plain[ret.arg].value >= ret.result.value

\* An evaluator has returned a bound, not the exact value, on a window that
\* is not the full one.
C17_Witness ==
    /\ ret.fn = "windowAB"
    /\ ~GameOver(ret.arg)
    /\ ret.alpha = 0
    /\ ret.beta = 1
    /\ ret.result.value # Plain[ret.arg].value

----------------------------------------------------------------------------
(* The application with its scheduling                                     *)

\* The fairness of the application: WF_vars(TimerFires), and
\* WF_vars(\E i \in Index : HandleClick(i)) for the human of C19 who
\* keeps clicking.  TimerFires is enabled exactly when a timer is pending
\* (C15) and leaves none pending, so its weak fairness is the recurrence
\* of ~timer.pending, and is written so: ENABLED TimerFires would make TLC
\* run the search in every state without its caches.
FairSpec ==
    /\ Spec
    /\ []<>(~timer.pending)
    /\ WF_vars(\E i \in Index : HandleClick(i))

\* A side is chosen and it is the bot's turn on a board that is not terminal.
BotsTurn ==
    /\ humanPlayer \in Players
    /\ ~GameOver(board)
    /\ getCurrentPlayer(board) = botPlayerOf(humanPlayer)

\* C19: when it is the bot's turn on a board with n marks, the board gets
\* its next mark, the bot's, unless the game is restarted; a game in which
\* the human keeps clicking ends on a terminal board unless it is
\* restarted; and a board never holds more than 9 marks, each move adding
\* one.
C19_Progress ==
    /\ \A n \in 0 .. 8 :
           (BotsTurn /\ marks(board) = n)
               ~> \/ humanPlayer = null
                  \/ /\ marks(board) = n + 1
                     /\ getCurrentPlayer(board) = humanPlayer
    /\ (humanPlayer \in Players) ~> (GameOver(board) \/ humanPlayer = null)
    /\ [](marks(board) <= 9)
    /\ [][board' # board
              => marks(board') = marks(board) + 1 \/ board' = initialBoard]_vars

\* The bot has placed its mark in answer to a move of the human.
C19_Witness ==
    /\ humanPlayer \in Players
    /\ marks(board) >= 2
    /\ getCurrentPlayer(board) = humanPlayer
    /\ ~timer.pending
    /\ ~GameOver(board)

====
